---------------------------- MODULE Spec2Model ----------------------------
(***************************************************************************)
(* State-machine model of the AgentCore Memory Browser front end           *)
(* (src/agentcore_memory_browser/static/js/app.js).                        *)
(*                                                                         *)
(* The browser runs the script on one thread: a handler runs until its     *)
(* first await, and the continuation after an await runs when the response *)
(* arrives.  Every action below is one such run-to-completion piece: the   *)
(* synchronous part of a handler up to its fetch, or the continuation that *)
(* handles one response, or one timer callback.                            *)
(*                                                                         *)
(* Text is modelled as a sequence of tokens (strings); the token SP is a   *)
(* whitespace character, so that String.prototype.trim is computed and not *)
(* assumed.                                                                *)
(***************************************************************************)
EXTENDS Integers, Sequences, FiniteSets, TLC

(***************************************************************************)
(* Bounds of the model.                                                    *)
(***************************************************************************)
\* memories offered by the selection control: 1..NumMemories
NumMemories == 2
\* item IDs the backend may return (events and records): 1..NumIds
NumIds == 2
\* requests that may be in flight at the same time
MaxInflight == 2
\* user actions (clicks, edits) in one behaviour
MaxUserActions == 5

Memories == 1..NumMemories
Ids == 1..NumIds

\* the value of `null` / the empty option of the selection control
NoMemory == 0

(***************************************************************************)
(* Text.                                                                   *)
(***************************************************************************)
SP == " "
EmptyText == << >>

RECURSIVE TrimStart(_)
TrimStart(t) ==
    IF t = << >> THEN << >>
    ELSE IF Head(t) = SP THEN TrimStart(Tail(t)) ELSE t

RECURSIVE TrimEnd(_)
TrimEnd(t) ==
    IF t = << >> THEN << >>
    ELSE IF t[Len(t)] = SP THEN TrimEnd(SubSeq(t, 1, Len(t) - 1)) ELSE t

\* String.prototype.trim
Trim(t) == TrimEnd(TrimStart(t))

\* text contains the token tok
Contains(t, tok) == \E i \in 1..Len(t) : t[i] = tok

(***************************************************************************)
(* The backend's memories and their strategies (GET /api/memories/{id}).   *)
(***************************************************************************)
Placeholder == "{memoryStrategyId}"

\* memory 1 has a strategy whose namespace holds the placeholder, the
\* strategies of the other memories have no namespace
StrategiesOf(m) ==
    IF m = 1
    THEN << [strategyId |-> "S1",
             namespaces |-> << <<"/strategy/", Placeholder, "/">> >>] >>
    ELSE << [strategyId |-> "S2", namespaces |-> << >>] >>

StrategyIndexes(m) == IF m = NoMemory THEN {} ELSE 1..Len(StrategiesOf(m))

\* String.prototype.replace(pattern, by): the first occurrence only
RECURSIVE ReplaceFirst(_, _, _)
ReplaceFirst(t, tok, by) ==
    IF t = << >> THEN << >>
    ELSE IF Head(t) = tok THEN <<by>> \o Tail(t)
    ELSE <<Head(t)>> \o ReplaceFirst(Tail(t), tok, by)

\* a faulty variant of getSimplifiedNamespace that leaves the placeholder in
getSimplifiedNamespaceUnsubstituted(strategy) ==
    IF "namespaces" \notin DOMAIN strategy \/ Len(strategy.namespaces) = 0
    THEN <<"/default/">>
    ELSE strategy.namespaces[1]

\* a strategy object may come without the field namespaces
getSimplifiedNamespace(strategy) ==
    IF "namespaces" \notin DOMAIN strategy \/ Len(strategy.namespaces) = 0
    THEN <<"/default/">>
    ELSE LET namespace == strategy.namespaces[1]
         IN  IF Contains(namespace, Placeholder)
             THEN ReplaceFirst(namespace, Placeholder, strategy.strategyId)
             ELSE namespace


(***************************************************************************)
(* The page.                                                               *)
(***************************************************************************)
\* results containers: add-event-results, global-events-results and, per
\* strategy tab i, strategy-i-memory-records-results and
\* strategy-i-retrieve-results
AllStrategyIndexes == UNION {StrategyIndexes(m) : m \in Memories}
StrategyContainers == {"list", "retrieve"} \X AllStrategyIndexes
Containers == {<<"add", 0>>, <<"events", 0>>} \cup StrategyContainers

\* what a container shows (its innerHTML): t is the kind of fragment, text
\* the message of a banner, rows the data-event-id / data-record-id of the
\* table rows in document order, count the number in the count badge
Content(t, text, rows, count) ==
    [t |-> t, text |-> text, rows |-> rows, count |-> count]
Absent == Content("absent", << >>, << >>, 0)
Empty == Content("empty", << >>, << >>, 0)

showLoading(message) == Content("loading", message, << >>, 0)
showError(message) == Content("error", message, << >>, 0)
showWarning(message) == Content("warning", message, << >>, 0)

VARIABLES
    currentMemory,      \* let currentMemory: the id of the memory object, or NoMemory
    currentSessionId,   \* let currentSessionId
    currentActorId,     \* let currentActorId
    currentEventsData,  \* let currentEventsData: eventId -> event
    currentRecordsData, \* let currentRecordsData: recordId -> record
    selectValue,        \* value of #memory-select
    shown,              \* the panels that do not carry the class d-none
    errorMessage,       \* text of #error-message
    strategyTabs,       \* the memory whose strategies #strategies-tabs shows
    formShown,          \* per strategy tab: which of its two forms is shown
    nsInput,            \* value of each namespace input of the strategy tabs
    results,            \* what each results container shows
    modal,              \* the delete confirmation dialog: whether it is open,
                        \* the item its message names, its confirm handler
                        \* (and, for the record, the item named by the
                        \* dialog that was dismissed last)
    timers,             \* pending callbacks of initializeStrategyNamespaces
    inflight,           \* requests sent and not yet answered
    alert,              \* message of the last alert() box
    left,               \* user actions the behaviour may still take
    last,               \* the piece of code that ran last, and its outcome
    call                \* a call of one of the pure helper functions: its
                        \* arguments and, once it returned, its result

vars == <<currentMemory, currentSessionId, currentActorId, currentEventsData,
          currentRecordsData, selectValue, shown, errorMessage, strategyTabs,
          formShown, nsInput, results, modal, timers, inflight, alert, left,
          last, call>>

\* the two caches, and everything drawn on the page
caches == <<currentEventsData, currentRecordsData>>
page == <<shown, errorMessage, strategyTabs, formShown, nsInput, results>>

NoHandler == [type |-> "none", id |-> 0, sessionId |-> << >>,
              actorId |-> << >>, namespace |-> << >>]
\* #delete-confirm-message before any dialog was opened
NoMessage == [type |-> "none", id |-> 0]

\* What ran last.
\*   op       "start" (a request was sent), "invalid" (validation failed),
\*            "ok" / "fail" (a response was handled), "ui" (anything else)
\*   wf       the operation
\*   target   the results container written to, if it is part of the document
\*   items    start / invalid: the texts read from the form's inputs;
\*            ok of a list or search: the ids of the response;
\*            deletion: the id of the item
\*   failure  the kind of failure handled
Step(op, wf, target, items, failure) ==
    [op |-> op, wf |-> wf, target |-> target, items |-> items,
     failure |-> failure]
NoTarget == <<"none", 0>>
Idle == Step("ui", "", NoTarget, << >>, "")
FailureKind(f) == IF f.kind = "network" THEN "network" ELSE f.body

\* the empty object {}
EmptyMap == [i \in {} |-> 0]

\* no helper function is being followed
NoCall == [fn |-> "none"]

\* After initializeApp: the memory list is loaded, nothing is selected.
InitWith(budget) ==
    /\ currentMemory = NoMemory
    /\ currentSessionId = << >>
    /\ currentActorId = << >>
    /\ currentEventsData = EmptyMap
    /\ currentRecordsData = EmptyMap
    /\ selectValue = NoMemory
    /\ shown = {"memory-list", "welcome-message"}
    /\ errorMessage = << >>
    /\ strategyTabs = NoMemory
    /\ formShown = [i \in AllStrategyIndexes |-> "none"]
    /\ nsInput = [c \in StrategyContainers |-> << >>]
    /\ results = [c \in Containers |->
                    IF c \in StrategyContainers THEN Absent ELSE Empty]
    /\ modal = [open |-> FALSE, message |-> NoMessage, handler |-> NoHandler,
                 dismissed |-> NoMessage]
    /\ timers = {}
    /\ inflight = {}
    /\ alert = << >>
    /\ left = budget
    /\ last = Idle

Init == InitWith(MaxUserActions) /\ call = NoCall


(***************************************************************************)
(* Requests and responses.                                                 *)
(***************************************************************************)
\* A request in flight, with what its continuation has captured:
\*   mem       the memory id in the URL
\*   target    the results container element the continuation writes to
\*   attached  whether that element is still part of the document
\*   frozen    the value of the captured namespace input, once detached
Request(op, mem, target, sessionId, actorId, ns, item) ==
    [op |-> op, mem |-> mem, target |-> target,
     attached |-> TRUE, frozen |-> << >>, sessionId |-> sessionId,
     actorId |-> actorId, ns |-> ns, item |-> item]

CanAct == left > 0
CanSend == Cardinality(inflight) < MaxInflight

\* a result list of the backend: some of the ids, in ascending order
RECURSIVE Ascending(_)
Ascending(S) ==
    IF S = {} THEN << >>
    ELSE LET x == CHOOSE y \in S : \A z \in S : y <= z
         IN  <<x>> \o Ascending(S \ {x})
ResultLists == {Ascending(S) : S \in SUBSET Ids}

\* a failed fetch: a non-2xx response (its body a JSON object with a detail
\* string, or no JSON at all), or no response
Detail == "index unavailable"
HttpFailures ==
    {[kind |-> "http", status |-> "500",
      statusText |-> "Internal Server Error", body |-> b] :
        b \in {"json-detail", "text"}}
Failures == HttpFailures \cup
    {[kind |-> "network", status |-> "", statusText |-> "", body |-> ""]}

\* `HTTP ${response.status}: ${response.statusText}`
StatusLine(f) == <<"HTTP ", f.status, ": ", f.statusText>>
\* error.message of the TypeError a rejected fetch throws
NetworkMessage == <<"Failed to fetch">>
\* error.message of the SyntaxError response.json() throws
SyntaxMessage == <<"Unexpected token">>

\* message of the error thrown by the handlers that test response.ok and
\* throw new Error(`HTTP ${response.status}: ${response.statusText}`)
StatusErrorMessage(f) ==
    IF f.kind = "network" THEN NetworkMessage ELSE StatusLine(f)

\* user interaction with the page is possible while no dialog is open
Interactive == ~modal.open
\* the memory detail panel holds the forms and the results tables
PanelInteractive == Interactive /\ "memory-details" \in shown

(***************************************************************************)
(* Memory selection.                                                       *)
(***************************************************************************)
hideMemoryDetails(panels) ==
    (panels \ {"memory-details"}) \cup {"welcome-message"}

hideMemoryInfo(panels) == panels \ {"memory-info"}

\* handleMemorySelection with an option that names memory m: showMemoryInfo,
\* then loadMemoryDetails up to its fetch
SelectMemory(m) ==
    /\ Interactive
    /\ CanAct
    /\ "memory-list" \in shown
    /\ m # selectValue
    /\ CanSend
    /\ selectValue' = m
    /\ shown' = ((shown \cup {"memory-info"})
                    \ {"welcome-message", "memory-details", "error-memory"})
                 \cup {"loading-memory"}
    /\ inflight' = inflight \cup
         {Request("getMemory", m, NoTarget, << >>, << >>, << >>, 0)}
    /\ left' = left - 1
    /\ last' = Step("start", "getMemory", NoTarget, << >>, "")
    /\ UNCHANGED <<currentMemory, currentSessionId, currentActorId, caches,
                   errorMessage, strategyTabs, formShown, nsInput, results,
                   modal, timers, alert>>
    /\ UNCHANGED call

\* handleMemorySelection with the empty option
DeselectMemory ==
    /\ Interactive
    /\ CanAct
    /\ "memory-list" \in shown
    /\ selectValue # NoMemory
    /\ selectValue' = NoMemory
    /\ shown' = hideMemoryInfo(hideMemoryDetails(shown))
    /\ last' = Idle
    /\ UNCHANGED <<currentMemory, currentSessionId, currentActorId, caches,
                   errorMessage, strategyTabs, formShown, nsInput, results,
                   modal, timers, inflight, alert>>
    /\ left' = left - 1
    /\ UNCHANGED call

\* A continuation that holds elements of the strategy tabs keeps them when
\* displayStrategies replaces the tabs: they leave the document, and the
\* captured namespace input keeps the value it had.
Detach(q) ==
    IF q.target \in StrategyContainers /\ q.attached
    THEN [q EXCEPT !.attached = FALSE, !.frozen = nsInput[q.target]]
    ELSE q

\* loadMemoryDetails after its fetch, response.ok: currentMemory = memory,
\* displayMemoryDetails (displayStrategies renders the tabs anew and
\* schedules initializeStrategyNamespaces for each strategy)
GetMemoryOk(r) ==
    /\ r \in inflight /\ r.op = "getMemory"
    /\ currentMemory' = r.mem
    /\ strategyTabs' = r.mem
    /\ formShown' = [i \in AllStrategyIndexes |-> "none"]
    /\ nsInput' = [c \in StrategyContainers |-> << >>]
    /\ results' = [c \in Containers |->
                     IF c \in StrategyContainers
                     THEN IF c[2] \in StrategyIndexes(r.mem)
                          THEN Empty ELSE Absent
                     ELSE results[c]]
    /\ timers' = timers \cup
         {[mem |-> r.mem, index |-> i] : i \in StrategyIndexes(r.mem)}
    /\ shown' = (shown \ {"loading-memory"}) \cup {"memory-details"}
    /\ inflight' = {Detach(q) : q \in inflight \ {r}}
    /\ last' = Step("ok", "getMemory", NoTarget, << >>, "")
    /\ UNCHANGED <<currentSessionId, currentActorId, caches, selectValue,
                   errorMessage, modal, alert, left>>
    /\ UNCHANGED call

\* loadMemoryDetails after its fetch, failed
GetMemoryFail(r, f) ==
    /\ r \in inflight /\ r.op = "getMemory"
    /\ errorMessage' = StatusErrorMessage(f)
    /\ shown' = (shown \ {"loading-memory"}) \cup {"error-memory"}
    /\ inflight' = inflight \ {r}
    /\ last' = Step("fail", "getMemory", NoTarget, << >>, FailureKind(f))
    /\ UNCHANGED <<currentMemory, currentSessionId, currentActorId, caches,
                   selectValue, strategyTabs, formShown, nsInput, results,
                   modal, timers, alert, left>>
    /\ UNCHANGED call

\* refreshData, with loadMemories up to its fetch
RefreshData ==
    /\ Interactive
    /\ CanAct
    /\ CanSend
    /\ currentMemory' = NoMemory
    /\ selectValue' = NoMemory
    /\ shown' = (hideMemoryInfo(hideMemoryDetails(shown))
                    \ {"memory-list", "memory-error"})
                 \cup {"memory-loading"}
    /\ inflight' = inflight \cup
         {Request("listMemories", NoMemory, NoTarget,
                  << >>, << >>, << >>, 0)}
    /\ left' = left - 1
    /\ last' = Step("start", "listMemories", NoTarget, << >>, "")
    /\ UNCHANGED <<currentSessionId, currentActorId, caches, errorMessage,
                   strategyTabs, formShown, nsInput, results, modal, timers,
                   alert>>
    /\ UNCHANGED call

\* loadMemories after its fetch: the options are rebuilt from the response
ListMemoriesOk(r) ==
    /\ r \in inflight /\ r.op = "listMemories"
    /\ shown' = (shown \ {"memory-loading"}) \cup {"memory-list"}
    /\ inflight' = inflight \ {r}
    /\ last' = Step("ok", "listMemories", NoTarget, << >>, "")
    /\ UNCHANGED <<currentMemory, currentSessionId, currentActorId, caches,
                   selectValue, errorMessage, strategyTabs, formShown,
                   nsInput, results, modal, timers, alert, left>>
    /\ UNCHANGED call

ListMemoriesFail(r, f) ==
    /\ r \in inflight /\ r.op = "listMemories"
    /\ shown' = (shown \ {"memory-loading"}) \cup {"memory-error"}
    /\ inflight' = inflight \ {r}
    /\ last' = Step("fail", "listMemories", NoTarget, << >>, FailureKind(f))
    /\ UNCHANGED <<currentMemory, currentSessionId, currentActorId, caches,
                   selectValue, errorMessage, strategyTabs, formShown,
                   nsInput, results, modal, timers, alert, left>>
    /\ UNCHANGED call

(***************************************************************************)
(* The strategy tabs: forms and namespace inputs.                          *)
(***************************************************************************)
\* the strategy tab i is part of the document
TabRendered(i) == strategyTabs # NoMemory /\ i \in StrategyIndexes(strategyTabs)

\* currentMemory && currentMemory.strategies[strategyIndex]
StrategyFound(i) ==
    currentMemory # NoMemory /\ i \in StrategyIndexes(currentMemory)

\* `if (input && !input.value) input.value = ns`
Prepopulate(inputs, c, ns) ==
    IF inputs[c] = << >> THEN [inputs EXCEPT ![c] = ns] ELSE inputs

\* listMemoryRecords(i) (kind "list") and retrieveMemoryRecords(i) (kind
\* "retrieve"): show the form, prepopulate its namespace input when empty
ShowForm(kind, i) ==
    /\ PanelInteractive
    /\ CanAct
    /\ TabRendered(i)
    /\ StrategyFound(i)
    /\ formShown[i] # kind
    /\ formShown' = [formShown EXCEPT ![i] = kind]
    /\ nsInput' = Prepopulate(nsInput, <<kind, i>>,
                     getSimplifiedNamespace(StrategiesOf(currentMemory)[i]))
    /\ last' = Idle
    /\ UNCHANGED <<currentMemory, currentSessionId, currentActorId, caches,
                   selectValue, shown, errorMessage, strategyTabs, results,
                   modal, timers, inflight, alert>>
    /\ left' = left - 1
    /\ UNCHANGED call

\* what the user may type into a namespace input
NamespaceEdits == { << >>, <<SP>>, <<"/custom/">> }

EditNamespace(c, text) ==
    /\ PanelInteractive
    /\ CanAct
    /\ TabRendered(c[2])
    /\ formShown[c[2]] = c[1]
    /\ nsInput[c] # text
    /\ nsInput' = [nsInput EXCEPT ![c] = text]
    /\ last' = Idle
    /\ UNCHANGED <<currentMemory, currentSessionId, currentActorId, caches,
                   selectValue, shown, errorMessage, strategyTabs, formShown,
                   results, modal, timers, inflight, alert>>
    /\ left' = left - 1
    /\ UNCHANGED call

\* the callback initializeStrategyNamespaces(strategy, index) scheduled:
\* it looks the two inputs up by id when it runs
NamespaceTimer(t) ==
    /\ t \in timers
    /\ timers' = timers \ {t}
    /\ nsInput' =
         IF TabRendered(t.index)
         THEN LET ns == getSimplifiedNamespace(StrategiesOf(t.mem)[t.index])
              IN  Prepopulate(Prepopulate(nsInput, <<"list", t.index>>, ns),
                              <<"retrieve", t.index>>, ns)
         ELSE nsInput
    /\ last' = Idle
    /\ UNCHANGED <<currentMemory, currentSessionId, currentActorId, caches,
                   selectValue, shown, errorMessage, strategyTabs, formShown,
                   results, modal, inflight, alert, left>>
    /\ UNCHANGED call

(***************************************************************************)
(* The four workflows run by executeApiCall.                               *)
(***************************************************************************)
Workflows == {"addEvent", "listEvents", "listRecords", "retrieve"}

loadingMessage(wf) ==
    CASE wf = "addEvent" -> <<"Creating event...">>
      [] wf = "listEvents" -> <<"Loading events...">>
      [] wf = "listRecords" -> <<"Loading memory records...">>
      [] wf = "retrieve" -> <<"Retrieving memory records...">>

errorPrefix(wf) ==
    CASE wf = "addEvent" -> "Error creating event"
      [] wf = "listEvents" -> "Error loading events"
      [] wf = "listRecords" -> "Error loading memory records"
      [] wf = "retrieve" -> "Error retrieving memory records"

validationWarning(wf) ==
    CASE wf = "addEvent" -> <<"Please enter content.">>
      [] wf = "listEvents" -> <<"Please enter both Session ID and Actor ID.">>
      [] wf = "listRecords" -> <<"Please enter a namespace.">>
      [] wf = "retrieve" -> <<"Please enter both search query and namespace.">>

\* a faulty variant of executeApiCall that skips the validation function and
\* always sends the request
executeApiCallUnvalidated(wf, target, inputs, valid, request) ==
    /\ CanAct
    /\ left' = left - 1
    /\ CanSend
    /\ results' = [results EXCEPT ![target] = showLoading(loadingMessage(wf))]
    /\ inflight' = inflight \cup {request}
    /\ last' = Step("start", wf, target, inputs, "")
    /\ UNCHANGED call

\* executeApiCall up to the await of apiCall(): validation, showLoading, and
\* the synchronous part of apiCall, which sends request
executeApiCall(wf, target, inputs, valid, request) ==
    /\ CanAct
    /\ left' = left - 1
    /\ IF ~valid
       THEN /\ results' = [results EXCEPT ![target] =
                              showWarning(validationWarning(wf))]
            /\ last' = Step("invalid", wf, target, inputs, "")
            /\ UNCHANGED inflight
       ELSE /\ CanSend
            /\ results' = [results EXCEPT ![target] =
                              showLoading(loadingMessage(wf))]
            /\ inflight' = inflight \cup {request}
            /\ last' = Step("start", wf, target, inputs, "")
    /\ UNCHANGED call

\* what the user may have typed into the text inputs of the forms
ContentTexts == { << >>, <<SP>>, <<"hello", SP>> }
SessionTexts == { << >>, <<"s1">>, <<SP, "s2">> }
ActorTexts == { <<SP>>, <<"a1">> }
QueryTexts == { << >>, <<"q">> }

executeAddEvent(content) ==
    /\ PanelInteractive
    /\ currentMemory # NoMemory
    /\ executeApiCall("addEvent", <<"add", 0>>, <<content>>,
          Trim(content) # << >>,
          Request("addEvent", currentMemory, <<"add", 0>>,
                  << >>, << >>, << >>, 0))
    /\ UNCHANGED <<currentMemory, currentSessionId, currentActorId, caches,
                   selectValue, shown, errorMessage, strategyTabs, formShown,
                   nsInput, modal, timers, alert>>

executeGlobalListEvents(session, actor) ==
    LET sessionId == Trim(session)
        actorId == Trim(actor)
        valid == sessionId # << >> /\ actorId # << >>
    IN  /\ PanelInteractive
        /\ currentMemory # NoMemory
        /\ executeApiCall("listEvents", <<"events", 0>>, <<session, actor>>,
              valid,
              Request("listEvents", currentMemory, <<"events", 0>>,
                      sessionId, actorId, << >>, 0))
        \* apiCall stores the ids "for deletion later"
        /\ currentSessionId' = IF valid THEN sessionId ELSE currentSessionId
        /\ currentActorId' = IF valid THEN actorId ELSE currentActorId
        /\ UNCHANGED <<currentMemory, caches, selectValue, shown,
                       errorMessage, strategyTabs, formShown, nsInput, modal,
                       timers, alert>>

executeListMemoryRecords(i) ==
    LET namespace == Trim(nsInput[<<"list", i>>])
    IN  /\ PanelInteractive
        /\ TabRendered(i) /\ formShown[i] = "list"
        /\ StrategyFound(i)
        /\ executeApiCall("listRecords", <<"list", i>>,
              <<nsInput[<<"list", i>>]>>, namespace # << >>,
              Request("listRecords", currentMemory, <<"list", i>>,
                      << >>, << >>, namespace, 0))
        /\ UNCHANGED <<currentMemory, currentSessionId, currentActorId,
                       caches, selectValue, shown, errorMessage, strategyTabs,
                       formShown, nsInput, modal, timers, alert>>

executeRetrieveMemoryRecords(i, searchQuery) ==
    LET query == Trim(searchQuery)
        namespace == Trim(nsInput[<<"retrieve", i>>])
    IN  /\ PanelInteractive
        /\ TabRendered(i) /\ formShown[i] = "retrieve"
        /\ StrategyFound(i)
        /\ executeApiCall("retrieve", <<"retrieve", i>>,
              <<searchQuery, nsInput[<<"retrieve", i>>]>>,
              query # << >> /\ namespace # << >>,
              Request("retrieve", currentMemory, <<"retrieve", i>>,
                      << >>, << >>, namespace, 0))
        /\ UNCHANGED <<currentMemory, currentSessionId, currentActorId,
                       caches, selectValue, shown, errorMessage, strategyTabs,
                       formShown, nsInput, modal, timers, alert>>

\* error.message in executeAddEvent: `const err = await response.json();
\* throw new Error(err.detail || response.statusText)`
AddEventErrorMessage(f) ==
    IF f.kind = "network" THEN NetworkMessage
    ELSE CASE f.body = "text" -> SyntaxMessage
           [] f.body = "json-detail" -> <<Detail>>
           [] OTHER -> <<f.statusText>>

\* error.message of the error a workflow's apiCall throws
ApiErrorMessage(wf, f) ==
    IF wf = "addEvent" THEN AddEventErrorMessage(f)
    ELSE StatusErrorMessage(f)

\* writing into an element a continuation holds: seen on the page only if
\* the element is still part of the document
Render(r, content) ==
    IF r.attached THEN [results EXCEPT ![r.target] = content] ELSE results
Written(r) == IF r.attached THEN r.target ELSE NoTarget

\* a faulty variant of WorkflowFail that renders the message without the
\* prefix of the workflow
WorkflowFailWithoutPrefix(r, f) ==
    /\ r \in inflight /\ r.op \in Workflows
    /\ results' = Render(r, showError(ApiErrorMessage(r.op, f)))
    /\ inflight' = inflight \ {r}
    /\ last' = Step("fail", r.op, Written(r), << >>, FailureKind(f))
    /\ UNCHANGED <<currentMemory, currentSessionId, currentActorId, caches,
                   selectValue, shown, errorMessage, strategyTabs, formShown,
                   nsInput, modal, timers, alert, left>>
    /\ UNCHANGED call

\* a faulty variant of WorkflowFail that sends the request again
WorkflowFailRetrying(r, f) ==
    /\ r \in inflight /\ r.op \in Workflows
    /\ results' = Render(r, showError(<<errorPrefix(r.op), ": ">>
                                        \o ApiErrorMessage(r.op, f)))
    /\ inflight' = inflight
    /\ last' = Step("fail", r.op, Written(r), << >>, FailureKind(f))
    /\ UNCHANGED <<currentMemory, currentSessionId, currentActorId, caches,
                   selectValue, shown, errorMessage, strategyTabs, formShown,
                   nsInput, modal, timers, alert, left>>
    /\ UNCHANGED call

\* a faulty variant of WorkflowFail that shows the error in every results
\* container of the page
WorkflowFailEverywhere(r, f) ==
    /\ r \in inflight /\ r.op \in Workflows
    /\ results' = [c \in Containers |->
                     IF results[c] = Absent THEN Absent
                     ELSE showError(<<errorPrefix(r.op), ": ">>
                                      \o ApiErrorMessage(r.op, f))]
    /\ inflight' = inflight \ {r}
    /\ last' = Step("fail", r.op, Written(r), << >>, FailureKind(f))
    /\ UNCHANGED <<currentMemory, currentSessionId, currentActorId, caches,
                   selectValue, shown, errorMessage, strategyTabs, formShown,
                   nsInput, modal, timers, alert, left>>
    /\ UNCHANGED call

\* executeApiCall, the catch branch: showError(resultsDiv, prefix: message)
WorkflowFail(r, f) ==
    /\ r \in inflight /\ r.op \in Workflows
    /\ results' = Render(r, showError(<<errorPrefix(r.op), ": ">>
                                        \o ApiErrorMessage(r.op, f)))
    /\ inflight' = inflight \ {r}
    /\ last' = Step("fail", r.op, Written(r), << >>, FailureKind(f))
    /\ UNCHANGED <<currentMemory, currentSessionId, currentActorId, caches,
                   selectValue, shown, errorMessage, strategyTabs, formShown,
                   nsInput, modal, timers, alert, left>>
    /\ UNCHANGED call

\* executeAddEvent, displayFunction
AddEventOk(r) ==
    /\ r \in inflight /\ r.op = "addEvent"
    /\ results' = Render(r, Content("success", <<"Event created">>, << >>, 0))
    /\ inflight' = inflight \ {r}
    /\ last' = Step("ok", r.op, Written(r), << >>, "")
    /\ UNCHANGED <<currentMemory, currentSessionId, currentActorId, caches,
                   selectValue, shown, errorMessage, strategyTabs, formShown,
                   nsInput, modal, timers, alert, left>>
    /\ UNCHANGED call

Range(seq) == {seq[k] : k \in 1..Len(seq)}

\* displayEvents(container, events, sessionId, actorId).  memoryId is not a
\* field the code stores: it records the memory whose events were listed.
displayEventsCache(events, sessionId, actorId, mem) ==
    IF Len(events) = 0 THEN currentEventsData
    ELSE [id \in Range(events) |->
            [sessionId |-> sessionId, actorId |-> actorId, memoryId |-> mem]]

displayEventsContent(events) ==
    IF Len(events) = 0
    THEN Content("info", <<"No events found.">>, << >>, 0)
    ELSE Content("table", << >>, events, Len(events))

\* executeGlobalListEvents, displayFunction: displayEvents(container,
\* result.events, currentSessionId, currentActorId)
ListEventsOk(r, events) ==
    /\ r \in inflight /\ r.op = "listEvents"
    /\ currentEventsData' = displayEventsCache(events, currentSessionId,
                                               currentActorId, r.mem)
    /\ results' = Render(r, displayEventsContent(events))
    /\ inflight' = inflight \ {r}
    /\ last' = Step("ok", r.op, Written(r), events, "")
    /\ UNCHANGED <<currentMemory, currentSessionId, currentActorId,
                   currentRecordsData, selectValue, shown, errorMessage,
                   strategyTabs, formShown, nsInput, modal, timers, alert,
                   left>>
    /\ UNCHANGED call

\* displayRecords(container, records, namespace, title)
displayRecordsCache(records, namespace, mem) ==
    IF Len(records) = 0 THEN currentRecordsData
    ELSE [id \in Range(records) |-> [namespace |-> namespace, memoryId |-> mem]]

displayRecordsContent(records, namespace) ==
    IF Len(records) = 0
    THEN Content("info", <<"No records found in namespace: ">> \o namespace,
                 << >>, 0)
    ELSE Content("table", << >>, records, Len(records))

\* namespaceInput.value.trim() read by the displayFunction of
\* executeListMemoryRecords and executeRetrieveMemoryRecords
NamespaceAtDisplay(r) ==
    Trim(IF r.attached THEN nsInput[r.target] ELSE r.frozen)

RecordsOk(r, records) ==
    /\ r \in inflight /\ r.op \in {"listRecords", "retrieve"}
    /\ currentRecordsData' =
         displayRecordsCache(records, NamespaceAtDisplay(r), r.mem)
    /\ results' = Render(r, displayRecordsContent(records, NamespaceAtDisplay(r)))
    /\ inflight' = inflight \ {r}
    /\ last' = Step("ok", r.op, Written(r), records, "")
    /\ UNCHANGED <<currentMemory, currentSessionId, currentActorId,
                   currentEventsData, selectValue, shown, errorMessage,
                   strategyTabs, formShown, nsInput, modal, timers, alert,
                   left>>
    /\ UNCHANGED call

(***************************************************************************)
(* Deletion.                                                               *)
(***************************************************************************)
\* the results container c is on screen
ContainerVisible(c) ==
    IF c \in StrategyContainers
    THEN TabRendered(c[2]) /\ formShown[c[2]] = c[1]
    ELSE TRUE

\* the kind of item the rows of container c stand for
ItemType(c) == IF c[1] = "events" THEN "event" ELSE "record"
TableContainers == Containers \ {<<"add", 0>>}

\* a faulty variant of ClickDelete that sends the DELETE request at once,
\* without opening the dialog
ClickDeleteWithoutConfirmation(c, id) ==
    LET cache == IF ItemType(c) = "event" THEN currentEventsData
                 ELSE currentRecordsData
        op == IF ItemType(c) = "event" THEN "deleteEvent" ELSE "deleteRecord"
    IN  /\ PanelInteractive
        /\ CanAct
        /\ ContainerVisible(c)
        /\ id \in Range(results[c].rows)
        /\ IF id \notin DOMAIN cache \/ currentMemory = NoMemory
           THEN /\ last' = Idle
                /\ UNCHANGED inflight
           ELSE /\ CanSend
                /\ inflight' = inflight \cup
                     {IF ItemType(c) = "event"
                      THEN Request(op, currentMemory, NoTarget,
                                   cache[id].sessionId, cache[id].actorId,
                                   << >>, id)
                      ELSE Request(op, currentMemory, NoTarget, << >>, << >>,
                                   cache[id].namespace, id)}
                /\ last' = Step("start", op, NoTarget, <<id>>, "")
        /\ UNCHANGED <<currentMemory, currentSessionId, currentActorId,
                       caches, selectValue, shown, errorMessage, strategyTabs,
                       formShown, nsInput, results, modal, timers, alert>>
        /\ left' = left - 1
        /\ UNCHANGED call

\* a faulty variant of ClickDelete that adds its click handler to the confirm
\* button without replacing the button: the handler of an earlier dialog
\* stays and is the one that runs
ClickDeleteKeepingHandler(c, id) ==
    LET cache == IF ItemType(c) = "event" THEN currentEventsData
                 ELSE currentRecordsData
    IN  /\ PanelInteractive
        /\ CanAct
        /\ ContainerVisible(c)
        /\ id \in Range(results[c].rows)
        /\ modal' =
             IF id \notin DOMAIN cache
             THEN modal
             ELSE [open |-> TRUE,
                   dismissed |-> modal.dismissed,
                   message |-> [type |-> ItemType(c), id |-> id],
                   handler |->
                     IF modal.handler.type # "none" THEN modal.handler
                     ELSE IF ItemType(c) = "event"
                     THEN [type |-> "event", id |-> id,
                           sessionId |-> cache[id].sessionId,
                           actorId |-> cache[id].actorId,
                           namespace |-> << >>]
                     ELSE [type |-> "record", id |-> id,
                           sessionId |-> << >>, actorId |-> << >>,
                           namespace |-> cache[id].namespace]]
        /\ last' = Idle
        /\ UNCHANGED <<currentMemory, currentSessionId, currentActorId,
                       caches, selectValue, shown, errorMessage, strategyTabs,
                       formShown, nsInput, results, timers, inflight, alert>>
        /\ left' = left - 1
        /\ UNCHANGED call

\* handleDeleteClick on the delete button of the row of item id in container
\* c: confirmDeleteEvent / confirmDeleteRecord
ClickDelete(c, id) ==
    LET cache == IF ItemType(c) = "event" THEN currentEventsData
                 ELSE currentRecordsData
    IN  /\ PanelInteractive
        /\ CanAct
        /\ ContainerVisible(c)
        /\ id \in Range(results[c].rows)
        /\ modal' =
             IF id \notin DOMAIN cache
             THEN modal      \* console.error('... not found'); return
             ELSE [open |-> TRUE,
                   dismissed |-> modal.dismissed,
                   \* `Are you sure you want to delete event "${eventId}"?`
                   message |-> [type |-> ItemType(c), id |-> id],
                   \* cloneNode drops the handlers of the button, then the
                   \* new handler is added
                   handler |->
                     IF ItemType(c) = "event"
                     THEN [type |-> "event", id |-> id,
                           sessionId |-> cache[id].sessionId,
                           actorId |-> cache[id].actorId,
                           namespace |-> << >>]
                     ELSE [type |-> "record", id |-> id,
                           sessionId |-> << >>, actorId |-> << >>,
                           namespace |-> cache[id].namespace]]
        /\ last' = Idle
        /\ UNCHANGED <<currentMemory, currentSessionId, currentActorId,
                       caches, selectValue, shown, errorMessage, strategyTabs,
                       formShown, nsInput, results, timers, inflight, alert>>
        /\ left' = left - 1
        /\ UNCHANGED call

\* the dialog is closed without confirming
DismissModal ==
    /\ modal.open
    /\ CanAct
    /\ modal' = [modal EXCEPT !.open = FALSE, !.dismissed = modal.message]
    /\ last' = Idle
    /\ UNCHANGED <<currentMemory, currentSessionId, currentActorId, caches,
                   selectValue, shown, errorMessage, strategyTabs, formShown,
                   nsInput, results, timers, inflight, alert>>
    /\ left' = left - 1
    /\ UNCHANGED call

\* click on #delete-confirm-btn: modal.hide(), then executeDeleteEvent /
\* executeDeleteRecord up to its fetch
ConfirmDelete ==
    LET h == modal.handler
        op == IF h.type = "event" THEN "deleteEvent" ELSE "deleteRecord"
    IN  /\ modal.open
        /\ CanAct
        /\ left' = left - 1
        /\ h.type # "none"
        /\ modal' = [modal EXCEPT !.open = FALSE]
        /\ IF currentMemory = NoMemory
           THEN /\ last' = Step("noMemory", op, NoTarget, <<h.id>>, "")
                /\ UNCHANGED inflight
           ELSE /\ CanSend
                /\ inflight' = inflight \cup
                     {Request(op, currentMemory, NoTarget, h.sessionId,
                              h.actorId, h.namespace, h.id)}
                /\ last' = Step("start", op, NoTarget, <<h.id>>, "")
        /\ UNCHANGED <<currentMemory, currentSessionId, currentActorId,
                       caches, selectValue, shown, errorMessage, strategyTabs,
                       formShown, nsInput, results, timers, alert>>
        /\ UNCHANGED call

\* delete obj[key]
Without(map, key) == [k \in DOMAIN map \ {key} |-> map[k]]

\* row.remove()
RemoveRow(content, id) ==
    [content EXCEPT !.rows = SelectSeq(content.rows, LAMBDA x : x # id)]

\* The top-level elements of the fragments displayEvents and displayRecords
\* write into a container, each with the elements it holds.
EventsMarkup ==
    << [class |-> "table-responsive", holds |-> {"badge", "tr"}] >>
RecordsMarkup ==
    << [class |-> "mb-3", holds |-> {"small"}],
       [class |-> "table-responsive", holds |-> {"tr"}] >>

\* row.closest('.table-responsive')?.previousElementSibling
\*    ?.querySelector(selector) finds an element
CountElementFound(markup, selector) ==
    \E k \in 1..Len(markup) :
        /\ markup[k].class = "table-responsive" /\ "tr" \in markup[k].holds
        /\ k > 1
        /\ selector \in markup[k - 1].holds

\* executeDeleteEvent after its fetch, response.ok
DeleteEventOk(r) ==
    LET c == <<"events", 0>>
        data == Without(currentEventsData, r.item)
        \* document.querySelector(`tr[data-event-id="${eventId}"]`)
        found == r.item \in Range(results[c].rows)
        removed == RemoveRow(results[c], r.item)
    IN  /\ r \in inflight /\ r.op = "deleteEvent"
        /\ currentEventsData' = data
        /\ results' =
             IF ~found THEN results
             ELSE [results EXCEPT ![c] =
                     IF CountElementFound(EventsMarkup, "badge")
                     THEN [removed EXCEPT !.count = Cardinality(DOMAIN data)]
                     ELSE removed]
        /\ inflight' = inflight \ {r}
        /\ last' = Step("ok", r.op, NoTarget, <<r.item>>, "")
        /\ UNCHANGED <<currentMemory, currentSessionId, currentActorId,
                       currentRecordsData, selectValue, shown, errorMessage,
                       strategyTabs, formShown, nsInput, modal, timers, alert,
                       left>>
        /\ UNCHANGED call

\* position of a records container in the document
DocumentPosition(c) == 2 * (c[2] - 1) + (IF c[1] = "list" THEN 1 ELSE 2)

\* executeDeleteRecord after its fetch, response.ok
DeleteRecordOk(r) ==
    LET data == Without(currentRecordsData, r.item)
        \* document.querySelector(`tr[data-record-id="${recordId}"]`): the
        \* first such row of the document
        holding == {c \in StrategyContainers :
                        r.item \in Range(results[c].rows)}
    IN  /\ r \in inflight /\ r.op = "deleteRecord"
        /\ currentRecordsData' = data
        /\ results' =
             IF holding = {} THEN results
             ELSE LET c == CHOOSE x \in holding : \A y \in holding :
                              DocumentPosition(x) <= DocumentPosition(y)
                      removed == RemoveRow(results[c], r.item)
                  IN  [results EXCEPT ![c] =
                         IF CountElementFound(RecordsMarkup, "small")
                         THEN [removed EXCEPT
                                 !.count = Cardinality(DOMAIN data)]
                         ELSE removed]
        /\ inflight' = inflight \ {r}
        /\ last' = Step("ok", r.op, NoTarget, <<r.item>>, "")
        /\ UNCHANGED <<currentMemory, currentSessionId, currentActorId,
                       currentEventsData, selectValue, shown, errorMessage,
                       strategyTabs, formShown, nsInput, modal, timers, alert,
                       left>>
        /\ UNCHANGED call

\* a faulty variant of DeleteFail that drops the item from its cache although
\* the deletion failed
DeleteFailDroppingEntry(r, f) ==
    /\ r \in inflight /\ r.op \in {"deleteEvent", "deleteRecord"}
    /\ alert' = <<IF r.op = "deleteEvent" THEN "Error deleting event: "
                  ELSE "Error deleting memory record: ">>
                \o StatusErrorMessage(f)
    /\ currentEventsData' = IF r.op = "deleteEvent"
                            THEN Without(currentEventsData, r.item)
                            ELSE currentEventsData
    /\ currentRecordsData' = IF r.op = "deleteRecord"
                             THEN Without(currentRecordsData, r.item)
                             ELSE currentRecordsData
    /\ inflight' = inflight \ {r}
    /\ last' = Step("fail", r.op, NoTarget, <<r.item>>, FailureKind(f))
    /\ UNCHANGED <<currentMemory, currentSessionId, currentActorId,
                   selectValue, shown, errorMessage, strategyTabs, formShown,
                   nsInput, results, modal, timers, left>>
    /\ UNCHANGED call

\* executeDeleteEvent / executeDeleteRecord, the catch branch
DeleteFail(r, f) ==
    /\ r \in inflight /\ r.op \in {"deleteEvent", "deleteRecord"}
    /\ alert' = <<IF r.op = "deleteEvent" THEN "Error deleting event: "
                  ELSE "Error deleting memory record: ">>
                \o StatusErrorMessage(f)
    /\ inflight' = inflight \ {r}
    /\ last' = Step("fail", r.op, NoTarget, <<r.item>>, FailureKind(f))
    /\ UNCHANGED <<currentMemory, currentSessionId, currentActorId, caches,
                   selectValue, shown, errorMessage, strategyTabs, formShown,
                   nsInput, results, modal, timers, left>>
    /\ UNCHANGED call

(***************************************************************************)
(* The specification.                                                      *)
(***************************************************************************)
Next ==
    \/ \E m \in Memories : SelectMemory(m)
    \/ DeselectMemory
    \/ RefreshData
    \/ \E r \in inflight : GetMemoryOk(r)
    \/ \E r \in inflight, f \in Failures : GetMemoryFail(r, f)
    \/ \E r \in inflight : ListMemoriesOk(r)
    \/ \E r \in inflight, f \in Failures : ListMemoriesFail(r, f)
    \/ \E kind \in {"list", "retrieve"}, i \in AllStrategyIndexes :
          ShowForm(kind, i)
    \/ \E c \in StrategyContainers, text \in NamespaceEdits :
          EditNamespace(c, text)
    \/ \E t \in timers : NamespaceTimer(t)
    \/ \E content \in ContentTexts : executeAddEvent(content)
    \/ \E session \in SessionTexts, actor \in ActorTexts :
          executeGlobalListEvents(session, actor)
    \/ \E i \in AllStrategyIndexes : executeListMemoryRecords(i)
    \/ \E i \in AllStrategyIndexes, query \in QueryTexts :
          executeRetrieveMemoryRecords(i, query)
    \/ \E r \in inflight, f \in Failures : WorkflowFail(r, f)
    \/ \E r \in inflight : AddEventOk(r)
    \/ \E r \in inflight, events \in ResultLists : ListEventsOk(r, events)
    \/ \E r \in inflight, records \in ResultLists : RecordsOk(r, records)
    \/ \E c \in TableContainers, id \in Ids : ClickDelete(c, id)
    \/ DismissModal
    \/ ConfirmDelete
    \/ \E r \in inflight : DeleteEventOk(r)
    \/ \E r \in inflight : DeleteRecordOk(r)
    \/ \E r \in inflight, f \in Failures : DeleteFail(r, f)

Spec == Init /\ [][Next]_vars

(***************************************************************************)
(* The URLs of the requests.                                               *)
(***************************************************************************)
\* memory.id, eventId and memoryRecordId as the backend sends them: any
\* string; the second of each holds a character that is reserved in a URL
MemoryId(m) == IF m = 1 THEN <<"m1">> ELSE <<"m", "/", "2">>
ItemId(id) == IF id = 1 THEN <<"i1">> ELSE <<"i", "/", "2">>

\* encodeURIComponent: each token of a text with its reserved characters
\* percent-encoded
EncodeToken(tok) ==
    CASE tok = SP -> "%20"
      [] tok = "/" -> "%2F"
      [] tok = "/custom/" -> "%2Fcustom%2F"
      [] tok = "/strategy/" -> "%2Fstrategy%2F"
      [] tok = "/default/" -> "%2Fdefault%2F"
      [] tok = Placeholder -> "%7BmemoryStrategyId%7D"
      [] OTHER -> tok
encodeURIComponent(t) == [i \in 1..Len(t) |-> EncodeToken(t[i])]

\* one value interpolated into a URL: what it is and the characters that
\* stand for it in the URL
UrlValue(name, raw, sent) == [name |-> name, raw |-> raw, sent |-> sent]

\* the values interpolated into the URL of request r, in the order of the
\* template literal passed to fetch
UrlValues(r) ==
    CASE r.op = "listMemories" -> << >>
      [] r.op = "getMemory" ->
            << UrlValue("memoryId", MemoryId(r.mem), MemoryId(r.mem)) >>
      [] r.op = "addEvent" ->
            << UrlValue("memoryId", MemoryId(r.mem), MemoryId(r.mem)) >>
      [] r.op = "listEvents" ->
            << UrlValue("memoryId", MemoryId(r.mem), MemoryId(r.mem)),
               UrlValue("session_id", r.sessionId,
                        encodeURIComponent(r.sessionId)),
               UrlValue("actor_id", r.actorId,
                        encodeURIComponent(r.actorId)) >>
      [] r.op = "listRecords" ->
            << UrlValue("memoryId", MemoryId(r.mem), MemoryId(r.mem)),
               UrlValue("namespace", r.ns, encodeURIComponent(r.ns)) >>
      [] r.op = "retrieve" ->
            << UrlValue("memoryId", MemoryId(r.mem), MemoryId(r.mem)) >>
      [] r.op = "deleteEvent" ->
            << UrlValue("memoryId", MemoryId(r.mem),
                        encodeURIComponent(MemoryId(r.mem))),
               UrlValue("eventId", ItemId(r.item),
                        encodeURIComponent(ItemId(r.item))),
               UrlValue("session_id", r.sessionId,
                        encodeURIComponent(r.sessionId)),
               UrlValue("actor_id", r.actorId,
                        encodeURIComponent(r.actorId)) >>
      [] r.op = "deleteRecord" ->
            << UrlValue("memoryId", MemoryId(r.mem),
                        encodeURIComponent(MemoryId(r.mem))),
               UrlValue("recordId", ItemId(r.item),
                        encodeURIComponent(ItemId(r.item))),
               UrlValue("namespace", r.ns, encodeURIComponent(r.ns)) >>

(***************************************************************************)
(* The content preview of a table row.                                     *)
(***************************************************************************)
\* JSON values: a string is a sequence of characters, an object a sequence
\* of key / value entries in property order
Str(t) == [type |-> "string", str |-> t]
Obj(entries) == [type |-> "object", entries |-> entries]
Entry(key, value) == [key |-> key, value |-> value]
Null == [type |-> "null"]
Num == [type |-> "number"]
Undefined == [type |-> "undefined"]

\* obj[key]
Get(v, key) ==
    IF v.type # "object" THEN Undefined
    ELSE LET at == {i \in 1..Len(v.entries) : v.entries[i].key = key}
         IN  IF at = {} THEN Undefined
             ELSE v.entries[CHOOSE i \in at : TRUE].value

\* the value converts to true
Truthy(v) ==
    CASE v.type = "string" -> v.str # << >>
      [] v.type \in {"object", "number"} -> TRUE
      [] OTHER -> FALSE

\* v && Object.keys(v).length > 0
HasKeys(v) ==
    CASE v.type = "string" -> Len(v.str) > 0
      [] v.type = "object" -> Len(v.entries) > 0
      [] OTHER -> FALSE

textFields ==
    <<"text", "content", "message", "description", "summary", "value">>

\* the loop over textFields from field k on: the first string found under
\* obj[field] or obj.content[field], or Undefined
RECURSIVE TextFieldFrom(_, _)
TextFieldFrom(obj, k) ==
    IF k > Len(textFields) THEN Undefined
    ELSE LET field == textFields[k]
             top == Get(obj, field)
             inner == Get(Get(obj, "content"), field)
         IN  IF Truthy(top) /\ top.type = "string" THEN top
             ELSE IF Truthy(Get(obj, "content")) /\ Truthy(inner)
                     /\ inner.type = "string"
                  THEN inner
                  ELSE TextFieldFrom(obj, k + 1)

\* extractStrings(obj, depth): the strings longer than 10 characters, in
\* property order, down to depth 3
RECURSIVE extractStrings(_, _)
RECURSIVE extractStringsOfEntries(_, _)
extractStrings(v, depth) ==
    IF depth > 3 THEN << >>
    ELSE IF v.type = "string" /\ Len(v.str) > 10 THEN <<v.str>>
    ELSE IF v.type = "object" THEN extractStringsOfEntries(v.entries, depth)
    ELSE << >>
extractStringsOfEntries(entries, depth) ==
    IF entries = << >> THEN << >>
    ELSE extractStrings(Head(entries).value, depth + 1)
           \o extractStringsOfEntries(Tail(entries), depth)

ComplexDataStructure ==
    <<"C","o","m","p","l","e","x"," ","d","a","t","a"," ",
      "s","t","r","u","c","t","u","r","e">>

extractTextForPreview(obj) ==
    IF ~Truthy(obj) THEN << >>
    ELSE LET found == TextFieldFrom(obj, 1)
             strings == extractStrings(obj, 0)
         IN  IF found.type = "string" THEN found.str
             ELSE IF Len(strings) > 0 THEN strings[1]
             ELSE ComplexDataStructure

\* div.textContent = text; div.innerHTML
EscapeChar(ch) ==
    CASE ch = "&" -> <<"&", "a", "m", "p", ";">>
      [] ch = "<" -> <<"&", "l", "t", ";">>
      [] ch = ">" -> <<"&", "g", "t", ";">>
      [] OTHER -> <<ch>>
RECURSIVE escapeHtml(_)
escapeHtml(text) ==
    IF text = << >> THEN << >>
    ELSE EscapeChar(Head(text)) \o escapeHtml(Tail(text))

Ellipsis == <<".", ".", ".">>

\* fullContent: { content, metadata } with the parts that are present
FullContent(content, metadata) ==
    Obj((IF HasKeys(content) THEN <<Entry("content", content)>> ELSE << >>)
        \o (IF HasKeys(metadata) THEN <<Entry("metadata", metadata)>>
            ELSE << >>))

\* a faulty variant of generateContentPreview that escapes the preview text
\* before it truncates it
generateContentPreviewEscapingFirst(content, metadata) ==
    IF ~HasKeys(content) /\ ~HasKeys(metadata)
    THEN [kind |-> "no content", text |-> << >>, html |-> << >>]
    ELSE LET previewText ==
                 extractTextForPreview(FullContent(content, metadata))
             escaped == escapeHtml(previewText)
         IN  IF previewText # << >>
             THEN [kind |-> "preview", text |-> previewText,
                   html |-> IF Len(escaped) > 100
                            THEN SubSeq(escaped, 1, 100) \o Ellipsis
                            ELSE escaped]
             ELSE [kind |-> "no preview", text |-> << >>, html |-> << >>]

\* generateContentPreview: which fragment it returns, the preview text it
\* chose and the characters rendered for it
generateContentPreview(content, metadata) ==
    IF ~HasKeys(content) /\ ~HasKeys(metadata)
    THEN [kind |-> "no content", text |-> << >>, html |-> << >>]
    ELSE LET previewText ==
                 extractTextForPreview(FullContent(content, metadata))
             truncated == IF Len(previewText) > 100
                          THEN SubSeq(previewText, 1, 100) \o Ellipsis
                          ELSE previewText
         IN  IF previewText # << >>
             THEN [kind |-> "preview", text |-> previewText,
                   html |-> escapeHtml(truncated)]
             ELSE [kind |-> "no preview", text |-> << >>, html |-> << >>]

(***************************************************************************)
(* The helper functions on their own: a call with arguments drawn from     *)
(* bounded sets, and its return.                                           *)
(***************************************************************************)
MaxNamespaceLen == 3
NamespaceTokens == {"/strategy/", Placeholder, "/"}
NamespaceTexts ==
    UNION {[1..n -> NamespaceTokens] : n \in 1..MaxNamespaceLen}
StrategyIds == {"S1", "S2"}

\* strategy objects: without namespaces, with an empty list, with one
\* namespace, with a second namespace behind it
StrategyObjects ==
    {[strategyId |-> id] : id \in StrategyIds}
    \cup {[strategyId |-> id, namespaces |-> << >>] : id \in StrategyIds}
    \cup {[strategyId |-> id, namespaces |-> <<ns>>] :
             id \in StrategyIds, ns \in NamespaceTexts}
    \cup {[strategyId |-> id, namespaces |-> <<ns, <<"/second/">>>>] :
             id \in StrategyIds, ns \in NamespaceTexts}

\* texts of n characters, all "a" but for the character at position p
TextWith(n, p, ch) == [i \in 1..n |-> IF i = p THEN ch ELSE "a"]
TruncationLimit == 100
LongTexts ==
    {TextWith(n, p, ch) :
        n \in {TruncationLimit - 1, TruncationLimit, TruncationLimit + 1,
               TruncationLimit + 2},
        p \in {1, TruncationLimit - 1, TruncationLimit},
        ch \in {"a", "<", "&"}}
ShortText == <<"h", "i">>
MarkupText == <<"<", "b", ">", "&">>
TenText == TextWith(10, 1, "t")
ElevenText == TextWith(11, 1, "e")
FieldTexts == {ShortText, ElevenText}

\* content / payload objects
PreviewKeys == {"text", "summary", "value", "id"}
KeyPairs == {p \in PreviewKeys \X PreviewKeys : p[1] # p[2]}
FieldValues == {Str(t) : t \in FieldTexts} \cup {Num}
FlatContents ==
    {Obj(<<Entry(p[1], v1), Entry(p[2], v2)>>) :
        p \in KeyPairs, v1 \in FieldValues, v2 \in FieldValues}
NestedContents ==
    {Obj(<<Entry("content", Obj(<<Entry(k, Str(t))>>))>>) :
        k \in {"text", "value", "id"}, t \in FieldTexts}
    \cup {Obj(<<Entry("summary", Str(ShortText)),
                Entry("content", Obj(<<Entry("text", Str(t))>>))>>) :
            t \in FieldTexts}
    \cup {Obj(<<Entry("content", Str(ShortText))>>)}
DeepContents ==
    { Obj(<<Entry("a", Obj(<<Entry("b", Str(ElevenText))>>))>>),
      Obj(<<Entry("a", Obj(<<Entry("b",
                Obj(<<Entry("c", Str(ElevenText))>>))>>))>>),
      Obj(<<Entry("id", Str(TenText))>>),
      Obj(<<Entry("text", Str(<< >>)), Entry("summary", Str(ShortText))>>),
      Obj(<<Entry("text", Str(MarkupText))>>),
      Obj(<< >>), Null, Num, Str(ShortText), Str(ElevenText) }
LongContents == {Obj(<<Entry("text", Str(t))>>) : t \in LongTexts}
Contents == FlatContents \cup NestedContents \cup DeepContents
               \cup LongContents
Metadatas == {Null, Obj(<<Entry("source", Str(ElevenText))>>)}

Calls ==
    {[fn |-> "getSimplifiedNamespace", args |-> <<s>>] :
        s \in StrategyObjects}
    \cup {[fn |-> "generateContentPreview", args |-> <<c, m>>] :
             c \in Contents, m \in Metadatas}

Returned == "result" \in DOMAIN call

CallGetSimplifiedNamespace ==
    /\ call.fn = "getSimplifiedNamespace" /\ ~Returned
    /\ call' = [fn |-> call.fn, args |-> call.args,
                result |-> getSimplifiedNamespace(call.args[1])]
    /\ UNCHANGED <<currentMemory, currentSessionId, currentActorId, caches,
                   page, modal, selectValue, timers, inflight, alert, left,
                   last>>

CallGenerateContentPreview ==
    /\ call.fn = "generateContentPreview" /\ ~Returned
    /\ call' = [fn |-> call.fn, args |-> call.args,
                result |-> generateContentPreview(call.args[1], call.args[2])]
    /\ UNCHANGED <<currentMemory, currentSessionId, currentActorId, caches,
                   page, modal, selectValue, timers, inflight, alert, left,
                   last>>

HelpersInit == InitWith(0) /\ call \in Calls
HelpersNext == CallGetSimplifiedNamespace \/ CallGenerateContentPreview
HelpersSpec == HelpersInit /\ [][HelpersNext]_vars

(***************************************************************************)
(* The deletion dialog at greater depth: the behaviours in which the user  *)
(* selects memory 1, lists its events and the records of a strategy, and   *)
(* opens, dismisses and confirms the dialog; list requests are answered    *)
(* with a result.                                                          *)
(***************************************************************************)
\* user actions in one behaviour of DialogSpec
MaxDialogActions == 8

DialogInit == InitWith(MaxDialogActions) /\ call = NoCall

DialogNext ==
    \/ SelectMemory(1)
    \/ \E r \in inflight : GetMemoryOk(r)
    \/ \E t \in timers : NamespaceTimer(t)
    \/ \E i \in AllStrategyIndexes : ShowForm("list", i)
    \/ executeGlobalListEvents(<<"s1">>, <<"a1">>)
    \/ \E i \in AllStrategyIndexes : executeListMemoryRecords(i)
    \/ \E r \in inflight, events \in ResultLists : ListEventsOk(r, events)
    \/ \E r \in inflight, records \in ResultLists : RecordsOk(r, records)
    \/ \E c \in TableContainers, id \in Ids : ClickDelete(c, id)
    \/ DismissModal
    \/ ConfirmDelete
    \/ \E r \in inflight : DeleteEventOk(r)
    \/ \E r \in inflight : DeleteRecordOk(r)
    \/ \E r \in inflight, f \in Failures : DeleteFail(r, f)

DialogSpec == DialogInit /\ [][DialogNext]_vars

(***************************************************************************)
(* Properties.                                                             *)
(***************************************************************************)
EventsContainer == <<"events", 0>>

\* the cache the rows of container c are looked up in
CacheOf(c) ==
    IF ItemType(c) = "event" THEN currentEventsData ELSE currentRecordsData

\* a step of handleMemorySelection with the empty option: the selection
\* control goes to the empty option and no request is sent
DeselectStep ==
    /\ selectValue # NoMemory
    /\ selectValue' = NoMemory
    /\ inflight' = inflight

\* C1: when the selection control is changed to the empty option, the detail
\* panel and the info panel are hidden and, afterwards, the event cache and
\* the record cache are both empty.
C1_DeselectClearsCaches ==
    [][DeselectStep =>
          /\ "memory-details" \notin shown'
          /\ "memory-info" \notin shown'
          /\ DOMAIN currentEventsData' = {}
          /\ DOMAIN currentRecordsData' = {}]_vars

\* a step that completes the detail load of a memory other than the one that
\* was current
LoadedOtherMemory ==
    /\ last'.op = "ok" /\ last'.wf = "getMemory"
    /\ currentMemory # NoMemory
    /\ currentMemory' # currentMemory

\* C2: once memory B has been selected after memory A and its detail load
\* has completed, neither cache holds an entry that was fetched for A.
C2_SelectionDiscardsCaches ==
    [][LoadedOtherMemory =>
          /\ \A id \in DOMAIN currentEventsData' :
                currentEventsData'[id].memoryId # currentMemory
          /\ \A id \in DOMAIN currentRecordsData' :
                currentRecordsData'[id].memoryId # currentMemory]_vars

\* C3: every successful List Events response replaces the event cache, and
\* every successful List Records or Retrieve Records response the record
\* cache: once it is rendered, the keys of the cache are exactly the ids of
\* the response, also for a response with no items.
C3_ResponseReplacesCache ==
    [][/\ (last'.op = "ok" /\ last'.wf = "listEvents")
            => DOMAIN currentEventsData' = Range(last'.items)
       /\ (last'.op = "ok" /\ last'.wf \in {"listRecords", "retrieve"})
            => DOMAIN currentRecordsData' = Range(last'.items)]_vars

\* C4: every event row and every record row rendered in a results table has
\* an entry under its id in the corresponding cache.
C4_RenderedRowsCached ==
    \A c \in TableContainers :
        \A id \in Range(results[c].rows) : id \in DOMAIN CacheOf(c)

\* a step that handles the success of the deletion of the event last'.items[1]
\* while the events table shows it among its N rows, the badge showing N
DeletedListedEvent ==
    /\ last'.op = "ok" /\ last'.wf = "deleteEvent"
    /\ results[EventsContainer].t = "table"
    /\ results[EventsContainer].count = Len(results[EventsContainer].rows)
    /\ last'.items[1] \in Range(results[EventsContainer].rows)

\* C5: after List Events has rendered N events and the deletion of one of
\* them succeeds, the event cache no longer holds its id, its row is removed
\* and the count badge of the events table shows N-1.
C5_DeleteEventDecrementsBadge ==
    [][DeletedListedEvent =>
          /\ last'.items[1] \notin DOMAIN currentEventsData'
          /\ last'.items[1] \notin Range(results'[EventsContainer].rows)
          /\ results'[EventsContainer].count
                = results[EventsContainer].count - 1]_vars

\* C6: after any sequence of list, search and successful delete operations,
\* an id whose deletion succeeded is shown in no rendered table, and the
\* count every table displays is the number of rows it renders.
C6_TablesConsistentWithDeletions ==
    [][/\ (last'.op = "ok" /\ last'.wf \in {"deleteEvent", "deleteRecord"})
            => \A c \in TableContainers :
                  (ItemType(c) = "event") = (last'.wf = "deleteEvent")
                     => last'.items[1] \notin Range(results'[c].rows)
       /\ \A c \in TableContainers :
             results'[c].t = "table"
                => results'[c].count = Len(results'[c].rows)]_vars

\* C7: when the DELETE request of an event or of a record fails, the row
\* stays rendered and the cache entry stays: both caches and every results
\* container are unchanged, and a blocking alert is raised whose text is
\* prefixed with "Error deleting event: " or "Error deleting memory record: ".
C7_DeleteFailureKeepsState ==
    [][(last'.op = "fail" /\ last'.wf \in {"deleteEvent", "deleteRecord"}) =>
          /\ currentEventsData' = currentEventsData
          /\ currentRecordsData' = currentRecordsData
          /\ results' = results
          /\ Len(alert') > 1
          /\ Head(alert') = IF last'.wf = "deleteEvent"
                            THEN "Error deleting event: "
                            ELSE "Error deleting memory record: "]_vars

\* the deletion of an event failed while its row was rendered and its entry
\* cached: the row and the entry are still there and the alert is up
C7_Witness ==
    /\ last.op = "fail" /\ last.wf = "deleteEvent"
    /\ last.items[1] \in DOMAIN currentEventsData
    /\ last.items[1] \in Range(results[EventsContainer].rows)
    /\ Len(alert) > 1

\* the message the failure of a request must produce: the detail string of
\* the body if it has one, else the HTTP status line
ExpectedErrorMessage(failure) ==
    IF failure = "json-detail" THEN <<Detail>>
    ELSE <<"HTTP ", "500", ": ", "Internal Server Error">>

\* C8: for every API operation, a non-success HTTP response whose body is
\* JSON with a detail string produces an error whose message is that detail
\* string, and otherwise the HTTP status line; a failed Retrieve Records
\* with status 500 and detail "index unavailable" renders a banner that
\* contains "index unavailable".
C8_ErrorMessageFromDetail ==
    (last.op = "fail" /\ last.failure \in {"json-detail", "text"}) =>
        LET message == ExpectedErrorMessage(last.failure)
        IN  /\ (last.wf \in Workflows /\ last.target \in Containers)
                  => /\ results[last.target].t = "error"
                     /\ results[last.target].text
                          = <<errorPrefix(last.wf), ": ">> \o message
            /\ last.wf = "deleteEvent"
                  => alert = <<"Error deleting event: ">> \o message
            /\ last.wf = "deleteRecord"
                  => alert = <<"Error deleting memory record: ">> \o message
            /\ last.wf = "getMemory" => errorMessage = message
            /\ (last.wf = "retrieve" /\ last.failure = "json-detail"
                  /\ last.target \in Containers)
                  => Contains(results[last.target].text, Detail)

\* C9: when the API call at the centre of a workflow fails (network error or
\* non-success status), the target container shows an error banner prefixed
\* with the prefix of that workflow, and neither cache changes; starting the
\* call changes no cache either.
C9_WorkflowFailureShowsBanner ==
    [][/\ (last'.wf \in Workflows /\ last'.op \in {"start", "fail"})
            => /\ currentEventsData' = currentEventsData
               /\ currentRecordsData' = currentRecordsData
       /\ (last'.wf \in Workflows /\ last'.op = "fail"
             /\ last'.target \in Containers)
            => /\ results'[last'.target].t = "error"
               /\ Len(results'[last'.target].text) > 2
               /\ results'[last'.target].text[1] =
                     CASE last'.wf = "addEvent" -> "Error creating event"
                       [] last'.wf = "listEvents" -> "Error loading events"
                       [] last'.wf = "listRecords"
                            -> "Error loading memory records"
                       [] last'.wf = "retrieve"
                            -> "Error retrieving memory records"
               /\ results'[last'.target].text[2] = ": "]_vars

\* a Retrieve Records call failed while the record cache held entries: the
\* container shows the error banner and the entries are still cached
C9_Witness ==
    /\ last.op = "fail" /\ last.wf = "retrieve"
    /\ last.target \in Containers
    /\ results[last.target].t = "error"
    /\ DOMAIN currentRecordsData # {}

\* a text that is empty or made of whitespace only
IsBlank(t) == \A i \in 1..Len(t) : t[i] = SP

\* some required input of the workflow step is blank
RequiredInputBlank(step) ==
    \E i \in 1..Len(step.items) : IsBlank(step.items[i])

\* C10: when a required input of a workflow is empty after trimming, the
\* target container shows the validation warning of that workflow and never
\* the loading indicator, no HTTP request is sent, no cache changes and no
\* other container changes.
C10_BlankInputWarns ==
    [][(last'.wf \in Workflows /\ last'.op \in {"start", "invalid"}
          /\ RequiredInputBlank(last')) =>
          /\ last'.op = "invalid"
          /\ results'[last'.target].t = "warning"
          /\ Len(results'[last'.target].text) > 0
          /\ \A c \in Containers \ {last'.target} : results'[c] = results[c]
          /\ inflight' = inflight
          /\ currentEventsData' = currentEventsData
          /\ currentRecordsData' = currentRecordsData]_vars

\* Retrieve Records was executed with a query and a namespace made of
\* whitespace only: the container shows the warning
C10_Witness ==
    /\ last.op = "invalid" /\ last.wf = "retrieve"
    /\ ~IsBlank(last.items[1])
    /\ Len(last.items[2]) > 0 /\ IsBlank(last.items[2])
    /\ results[last.target].t = "warning"

\* the steps in which the application, not the user, may write a namespace
\* input: displayStrategies runs again for the memory whose tabs are shown,
\* the deferred initialisation fires, a List / Retrieve form is shown
TabRerendered ==
    /\ last'.op = "ok" /\ last'.wf = "getMemory"
    /\ strategyTabs # NoMemory /\ strategyTabs' = strategyTabs
InitialisationFired == timers' # timers /\ timers' \subseteq timers
FormShownAgain == last'.op = "ui" /\ formShown' # formShown

\* C11: a namespace input is written by the application only when it is
\* empty: an input that holds text typed by the user still holds that text
\* after its strategy tab is rendered again, after the deferred namespace
\* initialisation fires and after the List / Retrieve form is shown again.
C11_NamespaceInputKept ==
    [][(TabRerendered \/ InitialisationFired \/ FormShownAgain) =>
          \A c \in StrategyContainers :
              nsInput[c] \in NamespaceEdits \ {<< >>}
                 => nsInput'[c] = nsInput[c]]_vars

\* the List Events request whose response the step handles
AnsweredListEvents(r) ==
    /\ r \in inflight /\ r \notin inflight'
    /\ r.op = "listEvents"
    /\ last'.op = "ok" /\ last'.wf = "listEvents"

\* C12: every entry of the event cache carries the sessionId and the actorId
\* of the List Events query whose response contained it, for any
\* interleaving of List Events requests and responses.
C12_EventScopeOfQuery ==
    [][\A r \in inflight :
          AnsweredListEvents(r) =>
             \A id \in Range(last'.items) :
                 /\ id \in DOMAIN currentEventsData'
                 /\ currentEventsData'[id].sessionId = r.sessionId
                 /\ currentEventsData'[id].actorId = r.actorId]_vars

\* the List Records / Retrieve Records request whose response the step
\* handles
AnsweredRecords(r) ==
    /\ r \in inflight /\ r \notin inflight'
    /\ r.op \in {"listRecords", "retrieve"}
    /\ last'.op = "ok" /\ last'.wf = r.op

\* C13: every entry of the record cache carries the namespace that was sent
\* in the List Records / Retrieve Records request whose response contained
\* it, also when the namespace input is edited while the request is in
\* flight.
C13_RecordNamespaceOfQuery ==
    [][\A r \in inflight :
          AnsweredRecords(r) =>
             \A id \in Range(last'.items) :
                 /\ id \in DOMAIN currentRecordsData'
                 /\ currentRecordsData'[id].namespace = r.ns]_vars

\* the characters that may not appear unencoded in a URL component
ReservedTokens == {SP, "/", "/custom/", "/strategy/", "/default/", Placeholder}

\* C14: in every HTTP request the client issues, every identifier or query
\* value embedded in the URL (memory ID, event ID, record ID, session ID,
\* actor ID, namespace) is percent-encoded.
C14_UrlValuesEncoded ==
    \A r \in inflight :
        \A k \in 1..Len(UrlValues(r)) :
            LET v == UrlValues(r)[k]
            IN  /\ v.sent = encodeURIComponent(v.raw)
                /\ \A i \in 1..Len(v.sent) : v.sent[i] \notin ReservedTokens

\* a step that handles the failure of the request of a workflow or of a
\* deletion
FailureHandled ==
    /\ last'.op = "fail"
    /\ last'.wf \in Workflows \cup {"deleteEvent", "deleteRecord"}

\* the step changes nothing that belongs to another workflow: no results
\* container but its own, no cache, no form, no input, no dialog, and it
\* leaves no request behind
OthersUntouched ==
    /\ \A c \in Containers \ {last'.target} : results'[c] = results[c]
    /\ currentEventsData' = currentEventsData
    /\ currentRecordsData' = currentRecordsData
    /\ UNCHANGED <<currentMemory, currentSessionId, currentActorId,
                   selectValue, shown, strategyTabs, formShown, nsInput,
                   modal, timers, left>>
    /\ inflight' \subseteq inflight /\ inflight' # inflight

\* right after a failure, each workflow whose form is on screen can be
\* started with valid inputs, and a deletion that awaits confirmation can be
\* sent
CanStartAfterFailure ==
    (last.op = "fail" /\ CanAct) =>
        /\ PanelInteractive =>
              /\ ENABLED (executeAddEvent(<<"hello", SP>>)
                            /\ last'.op = "start")
              /\ ENABLED (executeGlobalListEvents(<<"s1">>, <<"a1">>)
                            /\ last'.op = "start")
              /\ \A i \in AllStrategyIndexes :
                    (TabRendered(i) /\ StrategyFound(i)) =>
                       /\ (formShown[i] = "list"
                             /\ ~IsBlank(nsInput[<<"list", i>>]))
                            => ENABLED (executeListMemoryRecords(i)
                                          /\ last'.op = "start")
                       /\ (formShown[i] = "retrieve"
                             /\ ~IsBlank(nsInput[<<"retrieve", i>>]))
                            => ENABLED (executeRetrieveMemoryRecords(i, <<"q">>)
                                          /\ last'.op = "start")
        /\ (modal.open /\ currentMemory # NoMemory)
              => ENABLED (ConfirmDelete /\ last'.op = "start")

\* whatever failed before, every request in flight can be answered and its
\* workflow completed
CanComplete ==
    \A r \in inflight :
        /\ r.op = "addEvent" => ENABLED AddEventOk(r)
        /\ r.op = "listEvents" => ENABLED ListEventsOk(r, <<1>>)
        /\ r.op \in {"listRecords", "retrieve"} => ENABLED RecordsOk(r, <<1>>)
        /\ r.op = "deleteEvent" => ENABLED DeleteEventOk(r)
        /\ r.op = "deleteRecord" => ENABLED DeleteRecordOk(r)

\* C15: workflows isolate their failures: a failed request of one workflow
\* (Add Event, List Events, List Records, Retrieve Records, delete) changes
\* nothing in the results container of another workflow nor in a cache, and
\* every other workflow can still be started and completed afterwards.
C15_FailuresIsolated ==
    /\ [][FailureHandled => OthersUntouched]_vars
    /\ [](CanStartAfterFailure /\ CanComplete)

\* the Add Event request failed while the events table of an earlier List
\* Events was on screen and its entries cached: the table and the entries
\* are still there next to the error banner
C15_Witness ==
    /\ last.op = "fail" /\ last.wf = "addEvent"
    /\ results[<<"add", 0>>].t = "error"
    /\ results[EventsContainer].t = "table"
    /\ DOMAIN currentEventsData # {}

\* the positions of the placeholder in a namespace
PlaceholderAt(ns) == {i \in 1..Len(ns) : ns[i] = Placeholder}

HoldsString(v, key) ==
    /\ v.type = "object"
    /\ \E i \in 1..Len(v.entries) :
          /\ v.entries[i].key = key
          /\ v.entries[i].value.type = "string"
          /\ v.entries[i].value.str # << >>
StringUnder(v, key) ==
    (CHOOSE e \in Range(v.entries) : e.key = key).value.str

\* the priority of a key: its position in text, content, message,
\* description, summary, value
PriorityKeys ==
    <<"text", "content", "message", "description", "summary", "value">>

\* the content holds a string under the key of priority k, at its top level
\* or one level under its content key
HoldsAt(content, k) ==
    \/ HoldsString(content, PriorityKeys[k])
    \/ /\ content.type = "object"
       /\ \E e \in Range(content.entries) :
             e.key = "content" /\ HoldsString(e.value, PriorityKeys[k])
PickedAt(content, k) ==
    IF HoldsString(content, PriorityKeys[k])
    THEN StringUnder(content, PriorityKeys[k])
    ELSE StringUnder((CHOOSE e \in Range(content.entries) :
                         e.key = "content").value, PriorityKeys[k])

\* C17: for a record / event whose content or metadata is present,
\* generateContentPreview picks as preview text the string found under the
\* first of the keys text, content, message, description, summary, value,
\* looking at the top level of the content and then one level under its
\* content key; a string under an earlier key wins over one under a later
\* key, and the recursive scan applies only if no such key holds a string.
C17_PreviewPriority ==
    (call.fn = "generateContentPreview" /\ Returned) =>
        LET content == call.args[1]
            holding == {k \in 1..Len(PriorityKeys) : HoldsAt(content, k)}
        IN  holding # {} =>
               LET first == CHOOSE k \in holding : \A j \in holding : k <= j
               IN  /\ call.result.kind = "preview"
                   /\ call.result.text = PickedAt(content, first)

\* C18: the preview text chosen by generateContentPreview is rendered as its
\* first 100 characters followed by an ellipsis when it is longer than 100
\* characters, and unchanged when it has 100 characters or fewer; what is
\* rendered is the HTML-escaped form of that (truncated) text: truncation
\* comes before escaping.
C18_TruncateThenEscape ==
    (call.fn = "generateContentPreview" /\ Returned
       /\ call.result.kind = "preview") =>
        LET text == call.result.text
            html == call.result.html
            shown100 == IF Len(text) > 100
                        THEN [i \in 1..103 |->
                                 IF i <= 100 THEN text[i] ELSE "."]
                        ELSE text
        IN  /\ html = escapeHtml(shown100)
            /\ \A i \in 1..Len(html) : html[i] \notin {"<", ">"}
            /\ (\A i \in 1..Len(shown100) : shown100[i] \notin {"<", ">", "&"})
                  => html = shown100

\* a preview text of more than 100 characters with a "<" as its 100th
\* character was rendered: the "<" is escaped in full and the ellipsis
\* follows it
C18_Witness ==
    /\ call.fn = "generateContentPreview" /\ Returned
    /\ call.result.kind = "preview"
    /\ Len(call.result.text) > 100
    /\ call.result.text[100] = "<"
    /\ Len(call.result.html) = 99 + 4 + 3
    /\ SubSeq(call.result.html, 100, 106)
          = <<"&", "l", "t", ";", ".", ".", ".">>

\* the step handles the response (success or failure) to the workflow
\* request r, which was issued for a memory other than the one that is
\* selected and loaded now
StaleAnswered(r) ==
    /\ r \in inflight /\ r \notin inflight'
    /\ r.op \in Workflows
    /\ last'.wf = r.op /\ last'.op \in {"ok", "fail"}
    /\ currentMemory # NoMemory /\ selectValue = currentMemory
    /\ r.mem # currentMemory

\* C19: a response to an Add Event, List Events, List Records or Retrieve
\* Records request that was issued while memory A was selected is discarded
\* once a different memory B has become the current selection: it is written
\* neither into a cache nor into a results container of the view that now
\* shows B.
C19_StaleResponseDiscarded ==
    [][\A r \in inflight :
          StaleAnswered(r) =>
             /\ currentEventsData' = currentEventsData
             /\ currentRecordsData' = currentRecordsData
             /\ results' = results]_vars

\* what identifies a request on the wire
Wire(r) == <<r.op, r.mem, r.sessionId, r.actorId, r.ns, r.item>>
OnTheWire(requests) == {Wire(r) : r \in requests}

\* C20: each user-triggered workflow run that passes validation (Add Event,
\* List Events, List Records, Retrieve Records, a confirmed delete) shows its
\* loading placeholder where it has one and issues exactly one HTTP request;
\* no further request is issued without a new user action: a failed request
\* is not retried and a successful deletion triggers no list / search
\* re-fetch.
C20_OneRequestPerRun ==
    [][/\ (last'.op = "start"
             /\ last'.wf \in Workflows \cup {"deleteEvent", "deleteRecord"})
            => /\ left' = left - 1
               /\ \E r \in inflight' :
                     /\ r.op = last'.wf /\ r.mem = currentMemory
                     /\ inflight' = inflight \cup {r}
               /\ last'.wf \in Workflows
                     => results'[last'.target].t = "loading"
       /\ last'.op # "start"
            => OnTheWire(inflight') \subseteq OnTheWire(inflight)
       /\ last'.op \in {"ok", "fail"}
            => /\ left' = left
               /\ Cardinality(inflight') < Cardinality(inflight)]_vars

\* the deletion of an event succeeded and no request is on its way: the
\* list was not fetched again
C20_Witness ==
    /\ last.op = "ok" /\ last.wf = "deleteEvent"
    /\ results[EventsContainer].t = "table"
    /\ inflight = {}

DeleteOps == {"deleteEvent", "deleteRecord"}

\* the step sends the DELETE request r
DeleteIssued(r) == r \in inflight' /\ r \notin inflight /\ r.op \in DeleteOps

\* the item a DELETE request is about, as the dialog's message names it
ItemOf(r) ==
    [type |-> IF r.op = "deleteEvent" THEN "event" ELSE "record",
     id |-> r.item]

\* the step is a click on a row's delete action that opens the dialog, or
\* the dismissal of the dialog
DialogOpened == ~modal.open /\ modal'.open
DialogDismissed == modal.open /\ ~modal'.open /\ last'.op = "ui"

\* C21: a DELETE request for an event or record is issued only after the
\* confirmation dialog was opened for that item and the user clicked
\* confirm; clicking a row's delete action alone, or dismissing the dialog,
\* never issues a request and never changes a cache or a table.
C21_DeleteOnlyAfterConfirm ==
    [][/\ \A r \in inflight' :
             DeleteIssued(r) =>
                /\ modal.open /\ modal.message = ItemOf(r)
                /\ ~modal'.open
                /\ last' = Step("start", r.op, NoTarget, <<r.item>>, "")
       /\ (DialogOpened \/ DialogDismissed) =>
             /\ inflight' = inflight
             /\ caches' = caches
             /\ results' = results]_vars

\* the dialog was opened for a record and confirmed: its DELETE request is
\* on its way
C21_Witness ==
    /\ last.op = "start" /\ last.wf = "deleteRecord"
    /\ ~modal.open
    /\ \E r \in inflight : r.op = "deleteRecord" /\ ItemOf(r) = modal.message

\* the cache a DELETE request's item was looked up in
CacheFor(r) ==
    IF r.op = "deleteEvent" THEN currentEventsData ELSE currentRecordsData

\* C22: every DELETE request for an event or record is addressed to the
\* memory under which that item was fetched: after list results were
\* fetched under memory A and the selection then changed to memory B,
\* confirming the deletion of one of those items never sends a DELETE
\* carrying memory B's ID.
C22_DeleteAddressedToFetchMemory ==
    [][\A r \in inflight' :
          (DeleteIssued(r) /\ r.item \in DOMAIN CacheFor(r)) =>
              r.mem = CacheFor(r)[r.item].memoryId]_vars

\* no request for the details of a memory is in flight
NoDetailRequest == \A r \in inflight : r.op # "getMemory"

\* C23: for any order in which get-memory responses arrive, once no
\* memory-detail request is in flight and the detail panel is visible, the
\* current memory (currentMemory) and the rendered detail panel are those of
\* the memory chosen in the selection control; a slower response for an
\* earlier selection never overrides the later selection.
C23_LastSelectionWins ==
    (/\ NoDetailRequest
     /\ "memory-details" \in shown
     /\ selectValue # NoMemory)
        => /\ currentMemory = selectValue
           /\ strategyTabs = selectValue

\* The step handles the response to the request for the list of memories
\* that refreshData sent, and no request is left in flight.  The selection
\* control is part of #memory-list, which loadMemories hides until this
\* response is handled: the user made no selection since refreshData.
RefreshSettled ==
    /\ \E r \in inflight : r.op = "listMemories" /\ r \notin inflight'
    /\ inflight' = {}

\* C24: after refreshData has been triggered and every request that was in
\* flight at that moment has settled, with no new selection made by the
\* user, no memory is current (currentMemory is null), the selection control
\* shows the empty option and the detail panel is hidden.
C24_RefreshLeavesNothingCurrent ==
    [][RefreshSettled =>
          /\ currentMemory' = NoMemory
          /\ selectValue' = NoMemory
          /\ "memory-details" \notin shown']_vars

\* the default namespace of the strategy whose tab holds the input c, for
\* the memory whose tabs are rendered
RenderedDefault(c) == getSimplifiedNamespace(StrategiesOf(strategyTabs)[c[2]])

\* C25: a namespace input that the application prepopulates for strategy
\* index i always receives the default namespace of strategy i of the memory
\* whose tabs are currently rendered: a deferred initialisation (100 ms
\* timer) scheduled while rendering a previous memory's strategies never
\* writes that previous memory's namespace into the inputs of a memory
\* rendered afterwards.
C25_PrepopulatedFromRenderedMemory ==
    [][(InitialisationFired \/ FormShownAgain) =>
          \A c \in StrategyContainers :
             nsInput'[c] # nsInput[c] => nsInput'[c] = RenderedDefault(c)]_vars

\* the step is the click on the dialog's confirm button
ConfirmClicked ==
    modal.open /\ ~modal'.open /\ last'.op \in {"start", "noMemory"}

\* C26: the confirmation dialog holds at most one confirm handler: when the
\* dialog was opened for item X, dismissed, and then opened for item Y
\* (event or record, in any mix), clicking confirm issues a DELETE for Y
\* only and never for X.
C26_OneConfirmHandler ==
    [][ConfirmClicked =>
          /\ Cardinality(inflight' \ inflight) <= 1
          /\ \A r \in inflight' :
                DeleteIssued(r) =>
                   /\ ItemOf(r) = modal.message
                   /\ modal.dismissed # modal.message
                         => ItemOf(r) # modal.dismissed]_vars

\* the dialog was opened for an event and dismissed, then opened for a
\* record and confirmed: the DELETE request for the record is on its way
\* and none for the event
C26_Witness ==
    /\ last.op = "start" /\ last.wf = "deleteRecord"
    /\ ~modal.open
    /\ modal.dismissed.type = "event" /\ modal.message.type = "record"
    /\ \E r \in inflight : ItemOf(r) = modal.message
    /\ \A r \in inflight : r.op \in DeleteOps => ItemOf(r) # modal.dismissed

=============================================================================
